---------------------------- MODULE Spec2Model ----------------------------
(***************************************************************************)
(* A model of oma-helen-cli: the HelenSession login chain                  *)
(* (helenservice/client/helen_session.py) and the HelenApiClient session   *)
(* bookkeeping, cost arithmetic and contract resolution                    *)
(* (helenservice/api_client.py).                                           *)
(*                                                                         *)
(* The remote portal is the environment: every response it sends is drawn  *)
(* from a small set.  Python exceptions are values Raise(name).            *)
(***************************************************************************)
EXTENDS Integers, Sequences, FiniteSets, TLC

VARIABLES
    now,          \* datetime.now(): the wall clock, in half hours
    created,      \* number of HelenSession objects constructed so far
    jar,          \* jar[s]: the "access-token" cookie of HelenSession s
    lg,           \* the login call in progress / last finished
    reqs,         \* the HTTP requests issued by that login call, in order
    resp,         \* the response to the latest of them
    clientSession,      \* HelenApiClient._session (0 is None)
    latest_login_time,  \* HelenApiClient._latest_login_time (-1 is None)
    everOk,       \* the sessions on which a login call has returned normally
    okLoginAt,    \* when the latest HelenApiClient.login returned (-1: never)
    ret,          \* what the latest public call returned or raised, if the
                  \* caller has done nothing since
    prices_response,        \* what get_hourly_spot_prices_between_dates serves
    measurements_response,  \* what get_hourly_measurements_between_dates serves
    margin,       \* HelenApiClient._margin, in hundredths of a cent
    tax,          \* HelenApiClient._tax, in percent
    contracts,    \* the list /contract/list serves
    cache,        \* cache[a]: the TTLCache of the memoized accessor a, its
                  \* entries from the least to the most recently used
    monotonic,    \* time.monotonic(), the timer of the caches, in half hours
    asked,        \* the caller: the highest period it has asked data for
    site          \* the caller: the delivery site id it passes (0 is None)

loginVars == <<now, created, jar, lg, reqs, resp, clientSession,
               latest_login_time, everOk, okLoginAt, ret>>

calcVars == <<prices_response, measurements_response, margin, tax>>

contractVars == <<contracts>>

cacheVars == <<cache, monotonic, asked, site>>

vars == <<loginVars, calcVars, contractVars, cacheVars>>

-----------------------------------------------------------------------------
(* Bounds of the model *)

MaxSessions == 2
MaxTime == 3

(* timedelta(hours=1), in clock units of half an hour *)
Hour == 2

(* tax: 0.24 of __init__, in percent; margin: 0.38, in hundredths of a cent *)
DefaultTax == 24
DefaultMargin == 38

-----------------------------------------------------------------------------
(* The memoized accessors of HelenApiClient *)

Daily == "get_daily_measurements_between_dates"
Monthly == "get_monthly_measurements_by_year"
Hourly == "get_hourly_measurements_between_dates"
SpotPrices == "get_hourly_spot_prices_between_dates"
ContractData == "get_contract_data_json"
Accessors == {Daily, Monthly, Hourly, SpotPrices, ContractData}

(* TTLCache(maxsize=...) of each accessor's decorator *)
maxsize(a) == IF a \in {Monthly, ContractData} THEN 2 ELSE 4

-----------------------------------------------------------------------------
(* Values *)

NoToken == "None"

(* delivery_site_id: int = None *)
NoSite == 0

Tokens == {"tokA", "tokB"}

Val(v) == [kind |-> "value", val |-> v]
Raise(e) == [kind |-> "raise", val |-> e]
NoRet == [op |-> "none", arg |-> 0, out |-> Val("none")]

(* What a page of the portal may hold: a <form>, its action attribute, the *)
(* hidden inputs code and state, an <a>, its href attribute.               *)
Elements == {"form", "action", "code", "state", "a", "href"}
Pages == {Elements} \cup {Elements \ {e} : e \in Elements}

TransportErrors == {"ConnectionError", "ReadTimeout"}

(* What Session.send does with a request.  A response carries a page and  *)
(* may set the access-token cookie.  ReadTimeout is raised while the       *)
(* headers are awaited: nothing has arrived.  ConnectionError is raised    *)
(* when no connection is made, and also when the body stops arriving after *)
(* the headers, and the cookies they set, have been taken in.              *)
PageResponses ==
    [kind : {"page"}, body : Pages, cookie : Tokens \cup {NoToken}]
        \cup [kind : {"ReadTimeout"}, body : {{}}, cookie : {NoToken}]
        \cup [kind : {"ConnectionError"}, body : {{}},
              cookie : Tokens \cup {NoToken}]

(* The body of the response to the last request is not read by the chain. *)
FinalResponses == {r \in PageResponses : r.kind = "page" => r.body = Elements}

NoResponse == [kind |-> "none", body |-> {}, cookie |-> NoToken]

-----------------------------------------------------------------------------
(* HelenSession: the extraction helpers *)

(* soup.find("form").attrs['action'] *)
_get_html_form_url_lenient(page) == Val("url")
_get_html_form_url(page) ==
    IF "form" \notin page THEN Raise("AttributeError")
    ELSE IF "action" \notin page THEN Raise("KeyError")
    ELSE Val("url")

(* soup.find("input", {"name": attribute_name}).get("value") *)
_get_html_input_value(page, attribute_name) ==
    IF attribute_name \notin page THEN Raise("AttributeError")
    ELSE Val("value")

(* proceed_link_page_soup.find("a").attrs['href'] *)
find_a_href(page) ==
    IF "a" \notin page THEN Raise("AttributeError")
    ELSE IF "href" \notin page THEN Raise("KeyError")
    ELSE Val("url")

(* The first of the extractions, in the order the code makes them, that    *)
(* raises; the last one's value when none does.                            *)
FirstRaise(outs) ==
    IF \E i \in 1..Len(outs) : outs[i].kind = "raise"
    THEN outs[CHOOSE i \in 1..Len(outs) :
                /\ outs[i].kind = "raise"
                /\ \A j \in 1..(i-1) : outs[j].kind # "raise"]
    ELSE outs[Len(outs)]

(* form action, then the inputs code and state (lines 88-92, 106-110) *)
form_code_state(page) ==
    FirstRaise(<<_get_html_form_url(page),
                 _get_html_input_value(page, "code"),
                 _get_html_input_value(page, "state")>>)

-----------------------------------------------------------------------------
(* HelenSession: the requests of the chain, as the code builds them *)

Req(m, u, w) == [method |-> m, url |-> u, with |-> w]

tupas_request == Req("GET", "TUPAS_LOGIN_URL", "none")
authorization_request == Req("POST", "tupas.form.action", "none")
login_request ==
    Req("POST", "HELEN_LOGIN_HOST+authorization.form.action", "username,password")
continue_request == Req("GET", "access_granted.form.action", "code,state")
proceed_link_request == Req("GET", "proceed_link_page.a.href", "none")
auth_response_request == Req("GET", "auth_response.form.action", "code,state")

Idle == [pc |-> "idle", sid |-> 0, via |-> "none", err |-> "none"]

InCall == lg.pc \notin {"idle", "done", "raised"}

(* except Exception as e: logging.exception(...); raise e *)
login_reraise(e) == [lg EXCEPT !.pc = "raised", !.err = e]

(* The cookie jar of the session after a response: the session stores     *)
(* every cookie the response sets, replacing one of the same name.         *)
extract_cookies_keep_first(old, r) == IF old # NoToken THEN old ELSE r.cookie
extract_cookies(old, r) == IF r.cookie # NoToken THEN r.cookie ELSE old

(* self._session.send(prepared_request, ...): the request goes out and the *)
(* cookies of the response go into the jar; either the transport raises,   *)
(* or the response is kept for the parse that follows                      *)
Send(at, request, responses, next) ==
    /\ lg.pc = at
    /\ \E r \in responses :
        /\ reqs' = Append(reqs, request)
        /\ resp' = r
        /\ jar' = [jar EXCEPT ![lg.sid] = extract_cookies(@, r)]
        /\ lg' = IF r.kind = "page" THEN [lg EXCEPT !.pc = next]
                                     ELSE login_reraise(r.kind)
    /\ ret' = NoRet
    /\ UNCHANGED <<now, created, clientSession, latest_login_time, everOk, okLoginAt>>
    /\ UNCHANGED <<calcVars, contractVars, cacheVars>>

(* BeautifulSoup(response.text) and the extraction from it *)
Parse(at, out, next) ==
    /\ lg.pc = at
    /\ resp.kind = "page"
    /\ lg' = IF out.kind = "raise" THEN login_reraise(out.val)
                                   ELSE [lg EXCEPT !.pc = next]
    /\ ret' = NoRet
    /\ UNCHANGED <<now, created, jar, reqs, resp, clientSession,
                   latest_login_time, everOk, okLoginAt>>
    /\ UNCHANGED <<calcVars, contractVars, cacheVars>>

(* The locals of a finished login call are gone once the caller moves on. *)
ForgetCall ==
    /\ lg' = Idle
    /\ reqs' = <<>>
    /\ resp' = NoResponse

(* HelenSession() *)
NewHelenSession ==
    /\ ~InCall
    /\ created < MaxSessions
    /\ created' = created + 1
    /\ ret' = NoRet
    /\ ForgetCall
    /\ UNCHANGED <<now, jar, clientSession, latest_login_time, everOk, okLoginAt>>
    /\ UNCHANGED <<calcVars, contractVars, cacheVars>>

(* HelenSession.login(username, password) on an existing session *)
SessionLogin(s) ==
    /\ ~InCall
    /\ s \in 1..created
    /\ lg' = [pc |-> "tupas_get", sid |-> s, via |-> "session", err |-> "none"]
    /\ reqs' = <<>>
    /\ resp' = NoResponse
    /\ ret' = NoRet
    /\ UNCHANGED <<now, created, jar, clientSession, latest_login_time, everOk, okLoginAt>>
    /\ UNCHANGED <<calcVars, contractVars, cacheVars>>

(* HelenApiClient.login: HelenSession().login(username, password) *)
ClientLogin ==
    /\ ~InCall
    /\ created < MaxSessions
    /\ created' = created + 1
    /\ lg' = [pc |-> "tupas_get", sid |-> created + 1, via |-> "client",
              err |-> "none"]
    /\ reqs' = <<>>
    /\ resp' = NoResponse
    /\ ret' = NoRet
    /\ UNCHANGED <<now, jar, clientSession, latest_login_time, everOk, okLoginAt>>
    /\ UNCHANGED <<calcVars, contractVars, cacheVars>>

(* _send_login_request *)
TupasGet == Send("tupas_get", tupas_request, PageResponses, "tupas_parse")
TupasParse ==
    Parse("tupas_parse", _get_html_form_url(resp.body), "authorization_post")
AuthorizationPost ==
    Send("authorization_post", authorization_request, PageResponses,
         "authorization_parse")
AuthorizationParse ==
    Parse("authorization_parse", _get_html_form_url(resp.body), "login_post")
LoginPost ==
    Send("login_post", login_request, PageResponses, "access_granted_parse")

_send_login_request ==
    \/ TupasGet
    \/ TupasParse
    \/ AuthorizationPost
    \/ AuthorizationParse
    \/ LoginPost

(* _proceed_to_main_page_from_login_response *)
AccessGrantedParse ==
    Parse("access_granted_parse", form_code_state(resp.body), "continue_get")
ContinueGet ==
    Send("continue_get", continue_request, PageResponses, "proceed_link_parse")
ProceedLinkParse ==
    Parse("proceed_link_parse", find_a_href(resp.body), "proceed_link_get")
ProceedLinkGet ==
    Send("proceed_link_get", proceed_link_request, PageResponses,
         "auth_response_parse")
AuthResponseParse ==
    Parse("auth_response_parse", form_code_state(resp.body), "auth_response_get")

(* line 114: the last request; its response is not looked at *)
AuthResponseGet ==
    Send("auth_response_get", auth_response_request, FinalResponses, "return")

_proceed_to_main_page_from_login_response ==
    \/ AccessGrantedParse
    \/ ContinueGet
    \/ ProceedLinkParse
    \/ ProceedLinkGet
    \/ AuthResponseParse
    \/ AuthResponseGet

(* HelenSession.login returns self; HelenApiClient.login then stores the   *)
(* session and the time (api_client.py lines 31-32).                       *)
LoginReturn ==
    /\ lg.pc = "return"
    /\ lg' = [lg EXCEPT !.pc = "done"]
    /\ everOk' = everOk \cup {lg.sid}
    /\ IF lg.via = "client"
       THEN /\ clientSession' = lg.sid
            /\ latest_login_time' = now
            /\ okLoginAt' = now
       ELSE UNCHANGED <<clientSession, latest_login_time, okLoginAt>>
    /\ ret' = NoRet
    /\ UNCHANGED <<now, created, jar, reqs, resp>>
    /\ UNCHANGED <<calcVars, contractVars, cacheVars>>

(* HelenSession.get_access_token *)
get_access_token(s) ==
    IF jar[s] = NoToken THEN Raise("Exception: No access token found")
    ELSE Val(jar[s])

GetAccessToken(s) ==
    /\ ~InCall
    /\ s \in 1..created
    /\ ret' = [op |-> "get_access_token", arg |-> s, out |-> get_access_token(s)]
    /\ UNCHANGED <<now, created, jar, lg, reqs, resp, clientSession,
                   latest_login_time, everOk, okLoginAt>>
    /\ UNCHANGED <<calcVars, contractVars, cacheVars>>

(* HelenApiClient.is_session_valid *)
is_session_valid_no_upper ==
    IF latest_login_time = -1 THEN FALSE
    ELSE now - Hour <= latest_login_time
is_session_valid ==
    IF latest_login_time = -1 THEN FALSE
    ELSE now - Hour <= latest_login_time /\ latest_login_time <= now

IsSessionValid ==
    /\ ~InCall
    /\ ret' = [op |-> "is_session_valid", arg |-> 0,
               out |-> Val(is_session_valid)]
    /\ UNCHANGED <<now, created, jar, lg, reqs, resp, clientSession,
                   latest_login_time, everOk, okLoginAt>>
    /\ UNCHANGED <<calcVars, contractVars, cacheVars>>

(* The wall clock moves between calls: forward, or back when it is set.    *)
Tick ==
    /\ ~InCall
    /\ now < MaxTime
    /\ now' = now + 1
    /\ ret' = NoRet
    /\ ForgetCall
    /\ UNCHANGED <<created, jar, clientSession, latest_login_time, everOk, okLoginAt>>
    /\ UNCHANGED <<calcVars, contractVars, cacheVars>>

ClockSetBack ==
    /\ ~InCall
    /\ now > 0
    /\ now' = now - 1
    /\ ret' = NoRet
    /\ ForgetCall
    /\ UNCHANGED <<created, jar, clientSession, latest_login_time, everOk, okLoginAt>>
    /\ UNCHANGED <<calcVars, contractVars, cacheVars>>

Init ==
    /\ now = 0
    /\ created = 0
    /\ jar = [s \in 1..MaxSessions |-> NoToken]
    /\ lg = Idle
    /\ reqs = <<>>
    /\ resp = NoResponse
    /\ clientSession = 0
    /\ latest_login_time = -1
    /\ everOk = {}
    /\ okLoginAt = -1
    /\ ret = NoRet
    /\ cache = [a \in Accessors |-> <<>>]
    /\ monotonic = 0
    /\ asked = 0
    /\ site = NoSite
    /\ prices_response = [interval |-> FALSE, measurements |-> <<>>]
    /\ measurements_response = [intervals |-> FALSE, electricity |-> <<>>]
    /\ margin = DefaultMargin
    /\ tax = DefaultTax
    /\ contracts = <<>>

-----------------------------------------------------------------------------
(* HelenApiClient: the hourly series and the arithmetic on them.  Prices   *)
(* and the margin are in hundredths of a cent, the tax in percent; a       *)
(* result is the exact fraction num/den.                                   *)

MaxLen == 3

Margins == {0, DefaultMargin}

(* spot prices in hundredths of a cent per kWh; measurements in kWh *)
PriceValues == {-200, 0, 300}
MeasurementValues == {-2, 0, 3}
(* A reading the portal marks as not valid carries some value all the same *)
Readings(values, other) ==
    [status : {"valid"}, value : values] \cup [status : {"invalid"}, value : {other}]
None == [status |-> "None", value |-> 0]

Series(readings) == UNION {[1..n -> readings] : n \in 0..MaxLen}
PriceSeries == Series(Readings(PriceValues, 500))
MeasurementSeries == Series(Readings(MeasurementValues, 5))

(* SpotPricesResponse: .interval (None or an interval with .measurements) *)
SpotPricesResponses ==
    {[interval |-> FALSE, measurements |-> <<>>]}
        \cup [interval : {TRUE}, measurements : PriceSeries]

(* MeasurementResponse: .intervals (or None), .intervals.electricity (a     *)
(* list of intervals, of which the first is read), each with .measurements *)
MeasurementResponses ==
    {[intervals |-> FALSE, electricity |-> <<>>],
     [intervals |-> TRUE, electricity |-> <<>>]}
        \cup {[intervals |-> TRUE, electricity |-> <<[measurements |-> m]>>] :
                 m \in MeasurementSeries}

Rat(n, d) == [num |-> n, den |-> d]
Zero == Rat(0, 1)
abs(x) == IF x < 0 THEN -x ELSE x
min(a, b) == IF a <= b THEN a ELSE b

RECURSIVE sum(_)
sum(xs) == IF xs = <<>> THEN 0 ELSE Head(xs) + sum(Tail(xs))

(* list(map(lambda x: x if x.status == 'valid' else None, xs)) *)
valid_or_none(xs) ==
    [i \in 1..Len(xs) |-> IF xs[i].status = "valid" THEN xs[i] ELSE None]

(* list(filter(lambda x: x is not None, xs)) *)
without_nones(xs) == SelectSeq(xs, LAMBDA x : x # None)

(* the loop of lines 58-63 and 122-126: the products of the pairs, in      *)
(* index order, skipping an index where either side is None                *)
RECURSIVE paired_products(_, _, _, _)
paired_products(hourly_prices, hourly_measurements, length, add) ==
    IF length = 0 THEN <<>>
    ELSE LET rest == paired_products(hourly_prices, hourly_measurements,
                                     length - 1, add)
             hourly_price == hourly_prices[length]
             hourly_measurement == hourly_measurements[length]
         IN IF hourly_price = None \/ hourly_measurement = None THEN rest
            ELSE Append(rest, abs((hourly_price.value + add)
                                      * hourly_measurement.value))

(* a slip: the Nones are filtered out before the lists are paired *)
_get_hourly_consumption_costs_shifted(pr, mr, m) ==
    IF ~pr.interval THEN Val(<<>>)
    ELSE IF ~mr.intervals THEN Raise("AttributeError")
    ELSE IF mr.electricity = <<>> THEN Val(<<>>)
    ELSE LET hourly_prices == without_nones(valid_or_none(pr.measurements))
             hourly_measurements ==
                 without_nones(valid_or_none(mr.electricity[1].measurements))
             length == min(Len(hourly_prices), Len(hourly_measurements))
         IN Val(paired_products(hourly_prices, hourly_measurements, length, m))

(* _get_hourly_consumption_costs *)
_get_hourly_consumption_costs(pr, mr, m) ==
    IF ~pr.interval THEN Val(<<>>)
    ELSE IF ~mr.intervals THEN Raise("AttributeError")
    ELSE IF mr.electricity = <<>> THEN Val(<<>>)
    ELSE LET hourly_prices == valid_or_none(pr.measurements)
             hourly_measurements ==
                 valid_or_none(mr.electricity[1].measurements)
             length == min(Len(hourly_prices), Len(hourly_measurements))
         IN IF length = 0 THEN Val(<<>>)
            ELSE Val(paired_products(hourly_prices, hourly_measurements,
                                     length, m))

(* calculate_total_costs_by_spot_prices_between_dates *)
calculate_total_costs_by_spot_prices_between_dates(pr, mr, m, t) ==
    LET hourly_consumption_costs == _get_hourly_consumption_costs(pr, mr, m)
    IN IF hourly_consumption_costs.kind = "raise" THEN hourly_consumption_costs
       ELSE LET total_price == sum(hourly_consumption_costs.val)
            IN Val(Rat(total_price * (100 + t), 1000000))

(* lines 119-135 of calculate_impact_of_usage_between_dates, the division  *)
(* by zero of Python included                                              *)
impact_of_lists_aligned_consumption(hourly_prices, hourly_measurements, length) ==
    LET hourly_prices_without_nones == without_nones(hourly_prices)
        hourly_weighted_consumption_prices ==
            paired_products(hourly_prices, hourly_measurements, length, 0)
        aligned == {i \in 1..length : hourly_prices[i] # None
                                        /\ hourly_measurements[i] # None}
        n == Len(hourly_prices_without_nones)
        price_sum == sum([i \in 1..n |->
                             abs(hourly_prices_without_nones[i].value)])
        total_consumption ==
            sum([i \in 1..Len(hourly_measurements) |->
                    IF i \in aligned THEN abs(hourly_measurements[i].value)
                    ELSE 0])
        total_hourly_weighted_consumption_prices ==
            sum(hourly_weighted_consumption_prices)
    IN IF hourly_weighted_consumption_prices = <<>> THEN Val(Zero)
       ELSE IF total_consumption = 0 THEN Raise("ZeroDivisionError")
       ELSE Val(Rat(total_hourly_weighted_consumption_prices * n
                        - price_sum * total_consumption,
                    n * total_consumption))

impact_of_lists_unguarded(hourly_prices, hourly_measurements, length) ==
    LET hourly_prices_without_nones == without_nones(hourly_prices)
        hourly_measurements_without_nones == without_nones(hourly_measurements)
        hourly_weighted_consumption_prices ==
            paired_products(hourly_prices, hourly_measurements, length, 0)
        n == Len(hourly_prices_without_nones)
        price_sum == sum([i \in 1..n |->
                             abs(hourly_prices_without_nones[i].value)])
        total_consumption ==
            sum([i \in 1..Len(hourly_measurements_without_nones) |->
                    abs(hourly_measurements_without_nones[i].value)])
        total_hourly_weighted_consumption_prices ==
            sum(hourly_weighted_consumption_prices)
    IN IF n = 0 \/ total_consumption = 0 THEN Raise("ZeroDivisionError")
       ELSE Val(Rat(total_hourly_weighted_consumption_prices * n
                        - price_sum * total_consumption,
                    n * total_consumption))

impact_of_lists(hourly_prices, hourly_measurements, length) ==
    LET hourly_prices_without_nones == without_nones(hourly_prices)
        hourly_measurements_without_nones == without_nones(hourly_measurements)
        hourly_weighted_consumption_prices ==
            paired_products(hourly_prices, hourly_measurements, length, 0)
        \* monthly_average_price is price_sum / n
        n == Len(hourly_prices_without_nones)
        price_sum == sum([i \in 1..n |->
                             abs(hourly_prices_without_nones[i].value)])
        total_consumption ==
            sum([i \in 1..Len(hourly_measurements_without_nones) |->
                    abs(hourly_measurements_without_nones[i].value)])
        total_hourly_weighted_consumption_prices ==
            sum(hourly_weighted_consumption_prices)
    IN IF hourly_weighted_consumption_prices = <<>> THEN Val(Zero)
       \* (A - (price_sum / n) * E) / E
       ELSE IF total_consumption = 0 THEN Raise("ZeroDivisionError")
       ELSE Val(Rat(total_hourly_weighted_consumption_prices * n
                        - price_sum * total_consumption,
                    n * total_consumption))

(* calculate_impact_of_usage_between_dates *)
calculate_impact_of_usage_between_dates(pr, mr) ==
    IF ~pr.interval THEN Val(Zero)
    ELSE IF ~mr.intervals \/ mr.electricity = <<>> THEN Val(Zero)
    ELSE LET hourly_prices == valid_or_none(pr.measurements)
             hourly_measurements ==
                 valid_or_none(mr.electricity[1].measurements)
             length == min(Len(hourly_prices), Len(hourly_measurements))
         IN IF length = 0 THEN Val(Zero)
            ELSE impact_of_lists(hourly_prices, hourly_measurements, length)

CalculateTotalCosts ==
    /\ ~InCall
    /\ ret' = [op |-> "calculate_total_costs_by_spot_prices_between_dates",
               arg |-> 0,
               out |-> calculate_total_costs_by_spot_prices_between_dates(
                           prices_response, measurements_response, margin, tax)]
    /\ UNCHANGED <<now, created, jar, lg, reqs, resp, clientSession,
                   latest_login_time, everOk, okLoginAt>>
    /\ UNCHANGED <<calcVars, contractVars, cacheVars>>

CalculateImpactOfUsage ==
    /\ ~InCall
    /\ ret' = [op |-> "calculate_impact_of_usage_between_dates", arg |-> 0,
               out |-> calculate_impact_of_usage_between_dates(
                           prices_response, measurements_response)]
    /\ UNCHANGED <<now, created, jar, lg, reqs, resp, clientSession,
                   latest_login_time, everOk, okLoginAt>>
    /\ UNCHANGED <<calcVars, contractVars, cacheVars>>

(* set_margin *)
SetMargin(m) ==
    /\ ~InCall
    /\ margin' = m
    /\ ret' = NoRet
    /\ UNCHANGED <<now, created, jar, lg, reqs, resp, clientSession,
                   latest_login_time, everOk, okLoginAt>>
    /\ UNCHANGED <<prices_response, measurements_response, tax, contractVars,
                   cacheVars>>

InitCalc ==
    /\ prices_response \in SpotPricesResponses
    /\ measurements_response \in MeasurementResponses
    /\ margin = DefaultMargin
    /\ tax = DefaultTax
    /\ now = 0
    /\ created = 0
    /\ jar = [s \in 1..MaxSessions |-> NoToken]
    /\ lg = Idle
    /\ reqs = <<>>
    /\ resp = NoResponse
    /\ clientSession = 0
    /\ latest_login_time = -1
    /\ everOk = {}
    /\ okLoginAt = -1
    /\ ret = NoRet
    /\ cache = [a \in Accessors |-> <<>>]
    /\ monotonic = 0
    /\ asked = 0
    /\ site = NoSite
    /\ contracts = <<>>

NextCalc ==
    \/ CalculateTotalCosts
    \/ CalculateImpactOfUsage
    \/ \E m \in Margins : SetMargin(m)

-----------------------------------------------------------------------------
(* HelenApiClient: contract resolution and the contract-derived accessors. *)
(* Dates are clock values; a price is a whole number.                      *)

MaxContracts == 2

NoDate == -1
Sites == {1, 2}
Domains == {"electricity", "electricity-transfer", "electricity-production"}
StartDates == {0, 1}
EndDates == {NoDate, 0, 1}
NoContract == [domain |-> "None", start_date |-> NoDate, end_date |-> NoDate,
               delivery_site |-> [id |-> NoSite], products |-> <<>>]

(* the contracts of /contract/list *)
Contracts ==
    [domain : Domains, start_date : StartDates, end_date : EndDates,
     delivery_site : [id : Sites], products : {<<>>}]
ContractLists == UNION {[1..n -> Contracts] : n \in 0..MaxContracts}

(* _date_is_now_or_later *)
_date_is_now_or_later(end_date) == end_date >= now

(* filter_active_contracts *)
filter_active_contracts_with_production(cs) ==
    SelectSeq(cs, LAMBDA contract :
        contract.end_date = NoDate \/ _date_is_now_or_later(contract.end_date))
filter_active_contracts(cs) ==
    LET active_contracts ==
            SelectSeq(cs, LAMBDA contract :
                contract.end_date = NoDate
                    \/ _date_is_now_or_later(contract.end_date))
    IN SelectSeq(active_contracts,
                 LAMBDA contract : contract.domain # "electricity-production")

(* list.sort(key=start_date, reverse=True): stable, so contracts with the  *)
(* same start_date keep their order                                        *)
RECURSIVE insert_desc(_, _)
insert_desc(sorted, c) ==
    IF sorted = <<>> THEN <<c>>
    ELSE IF Head(sorted).start_date >= c.start_date
         THEN <<Head(sorted)>> \o insert_desc(Tail(sorted), c)
         ELSE <<c>> \o sorted

RECURSIVE sort_by_start_date_reverse(_)
sort_by_start_date_reverse(cs) ==
    IF cs = <<>> THEN <<>>
    ELSE insert_desc(sort_by_start_date_reverse(SubSeq(cs, 1, Len(cs) - 1)),
                     cs[Len(cs)])

(* _get_latest_active_contract *)
_get_latest_active_contract(cs) ==
    LET active_contracts == filter_active_contracts(cs)
        sorted == IF Len(active_contracts) > 1
                  THEN sort_by_start_date_reverse(active_contracts)
                  ELSE active_contracts
    IN IF Len(sorted) = 0 THEN Val(NoContract) ELSE Val(sorted[1])

(* list(filter(lambda contract: contract["delivery_site"]["id"] == id, cs)) *)
with_delivery_site_id(cs, delivery_site_id) ==
    SelectSeq(cs, LAMBDA contract : contract.delivery_site.id = delivery_site_id)

(* xs[0] *)
first_of(xs) == IF xs = <<>> THEN Raise("IndexError") ELSE Val(xs[1])

(* _get_contract_by_delivery_site_id *)
_get_contract_by_delivery_site_id(cs, delivery_site_id) ==
    IF delivery_site_id = NoSite THEN _get_latest_active_contract(cs)
    ELSE LET active_contracts ==
                 with_delivery_site_id(filter_active_contracts(cs),
                                       delivery_site_id)
         IN IF Len(active_contracts) = 0 THEN first_of(active_contracts)
            ELSE IF Len(active_contracts) > 1
                 THEN first_of(sort_by_start_date_reverse(active_contracts))
            ELSE first_of(with_delivery_site_id(cs, delivery_site_id))

(* next(filter(...), None): the first of the filtered ones, if any *)
next_or_none(found) == IF found = <<>> THEN <<>> ELSE <<found[1]>>

(* lambda component: component["is_base_price"], or                        *)
(* lambda component: component["name"] == name                             *)
picks(component, pick) ==
    IF pick = "is_base_price" THEN component.is_base_price
    ELSE component.name = pick

(* a slip: the component is looked for in every product of the type, not   *)
(* in the first one only                                                   *)
price_of_component_any_product(cs, delivery_site_id, product_type, pick) ==
    LET contract == _get_contract_by_delivery_site_id(cs, delivery_site_id)
    IN IF contract.kind = "raise" THEN contract
       ELSE IF contract.val = NoContract
            THEN Raise("InvalidApiResponseException")
       ELSE LET products ==
                    SelectSeq(contract.val.products,
                              LAMBDA q : q.product_type = product_type
                                  /\ \E i \in 1..Len(q.components) :
                                         picks(q.components[i], pick))
            IN IF products = <<>> THEN Val(0)
               ELSE Val(SelectSeq(products[1].components,
                                  LAMBDA c : picks(c, pick))[1].price)

(* the body the four accessors share: the contract, the first product of   *)
(* the type, its first component the test picks, the price of that         *)
price_of_component(cs, delivery_site_id, product_type, pick) ==
    LET contract == _get_contract_by_delivery_site_id(cs, delivery_site_id)
    IN IF contract.kind = "raise" THEN contract
       ELSE IF contract.val = NoContract
            THEN Raise("InvalidApiResponseException")
       ELSE LET product ==
                    next_or_none(SelectSeq(contract.val.products,
                                     LAMBDA q : q.product_type = product_type))
            IN IF product = <<>> THEN Val(0)
               ELSE LET component ==
                            next_or_none(SelectSeq(product[1].components,
                                             LAMBDA c : picks(c, pick)))
                    IN IF component = <<>> THEN Val(0)
                       ELSE Val(component[1].price)

get_contract_base_price(cs, delivery_site_id) ==
    price_of_component(cs, delivery_site_id, "energy", "is_base_price")

get_contract_energy_unit_price(cs, delivery_site_id) ==
    price_of_component(cs, delivery_site_id, "energy", "Energia")

get_transfer_fee(cs, delivery_site_id) ==
    price_of_component(cs, delivery_site_id, "transfer", "Siirtomaksu")

get_transfer_base_price(cs, delivery_site_id) ==
    price_of_component(cs, delivery_site_id, "transfer", "is_base_price")

(* One call at a time: the caller takes the result before the next call. *)
GetContractByDeliverySiteId(delivery_site_id) ==
    /\ ~InCall
    /\ ret = NoRet
    /\ ret' = [op |-> "_get_contract_by_delivery_site_id", arg |-> delivery_site_id,
               out |-> _get_contract_by_delivery_site_id(contracts, delivery_site_id)]
    /\ UNCHANGED <<now, created, jar, lg, reqs, resp, clientSession,
                   latest_login_time, everOk, okLoginAt>>
    /\ UNCHANGED <<calcVars, contractVars, cacheVars>>

GetContractBasePrice(delivery_site_id) ==
    /\ ~InCall
    /\ ret = NoRet
    /\ ret' = [op |-> "get_contract_base_price", arg |-> delivery_site_id,
               out |-> get_contract_base_price(contracts, delivery_site_id)]
    /\ UNCHANGED <<now, created, jar, lg, reqs, resp, clientSession,
                   latest_login_time, everOk, okLoginAt>>
    /\ UNCHANGED <<calcVars, contractVars, cacheVars>>

GetContractEnergyUnitPrice(delivery_site_id) ==
    /\ ~InCall
    /\ ret = NoRet
    /\ ret' = [op |-> "get_contract_energy_unit_price", arg |-> delivery_site_id,
               out |-> get_contract_energy_unit_price(contracts, delivery_site_id)]
    /\ UNCHANGED <<now, created, jar, lg, reqs, resp, clientSession,
                   latest_login_time, everOk, okLoginAt>>
    /\ UNCHANGED <<calcVars, contractVars, cacheVars>>

GetTransferFee(delivery_site_id) ==
    /\ ~InCall
    /\ ret = NoRet
    /\ ret' = [op |-> "get_transfer_fee", arg |-> delivery_site_id,
               out |-> get_transfer_fee(contracts, delivery_site_id)]
    /\ UNCHANGED <<now, created, jar, lg, reqs, resp, clientSession,
                   latest_login_time, everOk, okLoginAt>>
    /\ UNCHANGED <<calcVars, contractVars, cacheVars>>

GetTransferBasePrice(delivery_site_id) ==
    /\ ~InCall
    /\ ret = NoRet
    /\ ret' = [op |-> "get_transfer_base_price", arg |-> delivery_site_id,
               out |-> get_transfer_base_price(contracts, delivery_site_id)]
    /\ UNCHANGED <<now, created, jar, lg, reqs, resp, clientSession,
                   latest_login_time, everOk, okLoginAt>>
    /\ UNCHANGED <<calcVars, contractVars, cacheVars>>

TakeResult ==
    /\ ret # NoRet
    /\ ret' = NoRet
    /\ UNCHANGED <<now, created, jar, lg, reqs, resp, clientSession,
                   latest_login_time, everOk, okLoginAt>>
    /\ UNCHANGED <<calcVars, contractVars, cacheVars>>

InitContracts ==
    /\ contracts \in ContractLists
    /\ now \in 0..1
    /\ created = 0
    /\ jar = [s \in 1..MaxSessions |-> NoToken]
    /\ lg = Idle
    /\ reqs = <<>>
    /\ resp = NoResponse
    /\ clientSession = 0
    /\ latest_login_time = -1
    /\ everOk = {}
    /\ okLoginAt = -1
    /\ ret = NoRet
    /\ cache = [a \in Accessors |-> <<>>]
    /\ monotonic = 0
    /\ asked = 0
    /\ site = NoSite
    /\ prices_response = [interval |-> FALSE, measurements |-> <<>>]
    /\ measurements_response = [intervals |-> FALSE, electricity |-> <<>>]
    /\ margin = DefaultMargin
    /\ tax = DefaultTax

NextContracts ==
    \/ \E id \in Sites \cup {NoSite} : GetContractByDeliverySiteId(id)
    \/ \E id \in Sites \cup {NoSite} : GetContractBasePrice(id)
    \/ \E id \in Sites \cup {NoSite} : GetContractEnergyUnitPrice(id)
    \/ \E id \in Sites \cup {NoSite} : GetTransferFee(id)
    \/ \E id \in Sites \cup {NoSite} : GetTransferBasePrice(id)
    \/ TakeResult

(* The products of a contract and their components, as /contract/list      *)
(* serves them with include_products.                                      *)
MaxProducts == 2
MaxComponents == 2

ProductTypes == {"energy", "transfer"}
ComponentNames == {"Energia", "Siirtomaksu"}
ComponentPrices == {3, 7}
Components ==
    [name : ComponentNames, is_base_price : BOOLEAN, price : ComponentPrices]

(* the products of the given types over a list of components: product i   *)
(* takes the next counts[i] of them                                        *)
RECURSIVE products_of(_, _, _)
products_of(types, counts, components) ==
    IF types = <<>> THEN <<>>
    ELSE <<[product_type |-> Head(types),
            components |-> SubSeq(components, 1, Head(counts))]>>
         \o products_of(Tail(types), Tail(counts),
                        SubSeq(components, Head(counts) + 1, Len(components)))

(* one running contract of delivery site 1, with its products *)
contract_with(products) ==
    [domain |-> "electricity", start_date |-> 0, end_date |-> NoDate,
     delivery_site |-> [id |-> 1], products |-> products]

(* at most MaxProducts products, with at most MaxComponents components     *)
(* between them                                                            *)
InitProducts ==
    /\ \E n \in 0..MaxProducts :
       \E types \in [1..n -> ProductTypes] :
       \E counts \in [1..n -> 0..MaxComponents] :
          /\ sum(counts) <= MaxComponents
          /\ \E components \in [1..sum(counts) -> Components] :
                contracts = <<contract_with(
                                products_of(types, counts, components))>>
    /\ now = 0
    /\ created = 0
    /\ jar = [s \in 1..MaxSessions |-> NoToken]
    /\ lg = Idle
    /\ reqs = <<>>
    /\ resp = NoResponse
    /\ clientSession = 0
    /\ latest_login_time = -1
    /\ everOk = {}
    /\ okLoginAt = -1
    /\ ret = NoRet
    /\ cache = [a \in Accessors |-> <<>>]
    /\ monotonic = 0
    /\ asked = 0
    /\ site = NoSite
    /\ prices_response = [interval |-> FALSE, measurements |-> <<>>]
    /\ measurements_response = [intervals |-> FALSE, electricity |-> <<>>]
    /\ margin = DefaultMargin
    /\ tax = DefaultTax

NextProducts ==
    \/ \E id \in {NoSite, 1} : GetContractBasePrice(id)
    \/ \E id \in {NoSite, 1} : GetContractEnergyUnitPrice(id)
    \/ \E id \in {NoSite, 1} : GetTransferFee(id)
    \/ \E id \in {NoSite, 1} : GetTransferBasePrice(id)
    \/ TakeResult

-----------------------------------------------------------------------------
(* HelenApiClient: the memoized data accessors.  A call is one step: the   *)
(* client is single-threaded and blocks until the response or the error.   *)

MaxElapsed == 3
MaxPeriods == 3

(* ttl=3600 *)
ttl == Hour

(* the argument tuples: the dates (or the year) and the delivery site id *)
Keys == [period : 1..MaxPeriods, delivery_site_id : {NoSite, 1}]
NoArgs == [period |-> 0, delivery_site_id |-> NoSite]

CONTRACT_ENDPOINT == "/contract/list"
MEASUREMENTS_ENDPOINT == "/measurements/electricity"
TRANSFER_ENDPOINT == "/measurements/electricity-transfer"
SPOT_PRICES_ENDPOINT == "/measurements/electricity/spot-prices"

(* TTLCache.__getlink: the entry of the key becomes the most recently used *)
getlink(c, key) ==
    SelectSeq(c, LAMBDA e : e.key # key) \o SelectSeq(c, LAMBDA e : e.key = key)

(* a slip: a cache with no expiry *)
getitem_no_expiry(c, key) ==
    LET found == SelectSeq(c, LAMBDA e : e.key = key)
    IN IF found = <<>> THEN Raise("KeyError") ELSE Val(found[1].value)

(* TTLCache.__getitem__: the value of the key, KeyError when the key is not *)
(* there or its entry has expired                                          *)
getitem(c, key) ==
    LET found == SelectSeq(c, LAMBDA e : e.key = key)
    IN IF found = <<>> THEN Raise("KeyError")
       ELSE IF ~(monotonic < found[1].expires) THEN Raise("KeyError")
       ELSE Val(found[1].value)

(* TTLCache.expire(time) *)
expire(c) == SelectSeq(c, LAMBDA e : monotonic < e.expires)

(* Cache.__setitem__: popitem() while there is no room for a new key; the   *)
(* least recently used entry goes first                                    *)
RECURSIVE popitems(_, _)
popitems(c, a) == IF Len(c) + 1 > maxsize(a) THEN popitems(Tail(c), a) ELSE c

(* TTLCache.__setitem__ *)
setitem(c, a, key, value) ==
    LET live == expire(c)
        others == SelectSeq(live, LAMBDA e : e.key # key)
        kept == IF Len(others) = Len(live) THEN popitems(live, a) ELSE others
    IN Append(kept, [key |-> key, value |-> value, expires |-> monotonic + ttl])

(* the caches after the lookup of @cached has missed *)
looked_up(ch, a, key) == [ch EXCEPT ![a] = getlink(@, key)]

(* the wrapper of @cached: cache[k] when it is there; otherwise what the    *)
(* function does, its result stored when it returns one.  An outcome is    *)
(* the caches after the call, the HTTP requests sent, and the result.      *)
cached(ch, snt, a, key, results) ==
    LET hit == getitem(ch[a], key)
    IN IF hit.kind = "value"
       THEN {[cache |-> looked_up(ch, a, key), sent |-> snt, out |-> hit]}
       ELSE {IF o.out.kind = "raise" THEN o
             ELSE [o EXCEPT !.cache[a] = setitem(@, a, key, o.out.val)] :
                 o \in results}

(* get_api_access_token, _api_request_headers *)
_api_request_headers ==
    IF clientSession = 0 THEN Raise("AttributeError")
    ELSE get_access_token(clientSession)

(* a slip: a request that fails in the transport is sent once more *)
get_retrying(ch, snt, endpoint, content) ==
    IF _api_request_headers.kind = "raise"
    THEN {[cache |-> ch, sent |-> snt, out |-> _api_request_headers]}
    ELSE {[cache |-> ch, sent |-> snt \o <<endpoint, endpoint>>,
           out |-> Raise(e)] : e \in TransportErrors}
         \cup {[cache |-> ch, sent |-> Append(snt, endpoint),
                out |-> Val([at |-> monotonic, content |-> content])]}

(* get(url, params, headers=self._api_request_headers(), timeout=...): the  *)
(* headers are built first; then the request goes out, and the transport   *)
(* raises or the response arrives, marked here with the time it was served *)
get(ch, snt, endpoint, content) ==
    IF _api_request_headers.kind = "raise"
    THEN {[cache |-> ch, sent |-> snt, out |-> _api_request_headers]}
    ELSE {[cache |-> ch, sent |-> Append(snt, endpoint), out |-> Raise(e)] :
              e \in TransportErrors}
         \cup {[cache |-> ch, sent |-> Append(snt, endpoint),
                out |-> Val([at |-> monotonic, content |-> content])]}

(* get_contract_data_json *)
get_contract_data_json(ch, snt) ==
    cached(ch, snt, ContractData, NoArgs,
           get(looked_up(ch, ContractData, NoArgs), snt, CONTRACT_ENDPOINT,
               contracts))

(* self._get_contract_by_delivery_site_id(delivery_site_id): the contract  *)
(* list is fetched through its accessor, then the contract resolved        *)
resolve_contract(ch, snt, delivery_site_id) ==
    {IF o.out.kind = "raise" THEN o
     ELSE [o EXCEPT !.out = _get_contract_by_delivery_site_id(
                                o.out.val.content, delivery_site_id)] :
         o \in get_contract_data_json(ch, snt)}

(* _get_measurements_endpoint_and_delivery_site_id: 'domain' in contract    *)
(* raises TypeError when the contract is None                              *)
_get_measurements_endpoint_and_delivery_site_id(ch, snt, delivery_site_id) ==
    {IF o.out.kind = "raise" THEN o
     ELSE IF o.out.val = NoContract THEN [o EXCEPT !.out = Raise("TypeError")]
     ELSE [o EXCEPT !.out = Val(
              [endpoint |-> IF o.out.val.domain = "electricity-transfer"
                            THEN TRANSFER_ENDPOINT ELSE MEASUREMENTS_ENDPOINT,
               delivery_site_id |-> o.out.val.delivery_site.id])] :
         o \in resolve_contract(ch, snt, delivery_site_id)}

(* get_daily_measurements_between_dates, get_monthly_measurements_by_year  *)
(* and get_hourly_measurements_between_dates: the same body but for the    *)
(* resolution parameter of the request                                     *)
get_measurements(ch, snt, a, key) ==
    cached(ch, snt, a, key,
           UNION {IF r.out.kind = "raise" THEN {r}
                  ELSE get(r.cache, r.sent, r.out.val.endpoint, "measurements") :
                      r \in _get_measurements_endpoint_and_delivery_site_id(
                                looked_up(ch, a, key), snt,
                                key.delivery_site_id)})

(* get_hourly_spot_prices_between_dates: the contract is resolved only     *)
(* when no delivery site id is given; None["delivery_site"] raises         *)
(* TypeError                                                               *)
get_hourly_spot_prices_between_dates(ch, snt, key) ==
    cached(ch, snt, SpotPrices, key,
           IF key.delivery_site_id = NoSite
           THEN UNION {IF r.out.kind = "raise" THEN {r}
                       ELSE IF r.out.val = NoContract
                            THEN {[r EXCEPT !.out = Raise("TypeError")]}
                       ELSE get(r.cache, r.sent, SPOT_PRICES_ENDPOINT,
                                "spot-prices") :
                           r \in resolve_contract(
                                     looked_up(ch, SpotPrices, key), snt, NoSite)}
           ELSE get(looked_up(ch, SpotPrices, key), snt, SPOT_PRICES_ENDPOINT,
                    "spot-prices"))

(* The caller of a run works with one of the data accessors, next to the   *)
(* contract data that all of them resolve through: each accessor has a     *)
(* cache of its own, which no other accessor reads or writes.  It passes   *)
(* one delivery site id, and asks for a period it has not asked for before *)
(* only after the periods below it: the periods are alike.                 *)
OnlyUses(a) == \A b \in Accessors \ {a, ContractData} : cache[b] = <<>>

Asks(key) ==
    /\ key.delivery_site_id = site
    /\ key.period <= asked + 1
    /\ asked' = IF key.period > asked THEN key.period ELSE asked
    /\ site' = site

(* A call of a data accessor by the caller. *)
Returns(a, key, o) ==
    /\ cache' = o.cache
    /\ ret' = [op |-> a, arg |-> key, out |-> o.out, sent |-> o.sent]
    /\ UNCHANGED <<now, created, jar, lg, reqs, resp, clientSession,
                   latest_login_time, everOk, okLoginAt, monotonic>>
    /\ UNCHANGED <<calcVars, contractVars>>

GetDailyMeasurementsBetweenDates(key) ==
    /\ ~InCall
    /\ ret = NoRet
    /\ OnlyUses(Daily)
    /\ Asks(key)
    /\ \E o \in get_measurements(cache, <<>>, Daily, key) : Returns(Daily, key, o)

GetMonthlyMeasurementsByYear(key) ==
    /\ ~InCall
    /\ ret = NoRet
    /\ OnlyUses(Monthly)
    /\ Asks(key)
    /\ \E o \in get_measurements(cache, <<>>, Monthly, key) :
           Returns(Monthly, key, o)

GetHourlyMeasurementsBetweenDates(key) ==
    /\ ~InCall
    /\ ret = NoRet
    /\ OnlyUses(Hourly)
    /\ Asks(key)
    /\ \E o \in get_measurements(cache, <<>>, Hourly, key) :
           Returns(Hourly, key, o)

GetHourlySpotPricesBetweenDates(key) ==
    /\ ~InCall
    /\ ret = NoRet
    /\ OnlyUses(SpotPrices)
    /\ Asks(key)
    /\ \E o \in get_hourly_spot_prices_between_dates(cache, <<>>, key) :
           Returns(SpotPrices, key, o)

GetContractDataJson ==
    /\ ~InCall
    /\ ret = NoRet
    /\ \E o \in get_contract_data_json(cache, <<>>) :
           Returns(ContractData, NoArgs, o)
    /\ UNCHANGED <<asked, site>>

(* Time passes between two calls. *)
Elapse ==
    /\ ~InCall
    /\ ret = NoRet
    /\ monotonic < MaxElapsed
    /\ monotonic' = monotonic + 1
    /\ UNCHANGED <<loginVars, calcVars, contractVars, cache, asked, site>>

(* A client that has logged in, and the contract list the portal serves. *)
running_contract(domain) ==
    [domain |-> domain, start_date |-> 0, end_date |-> NoDate,
     delivery_site |-> [id |-> 1], products |-> <<>>]

InitCache ==
    /\ contracts \in {<<>>, <<running_contract("electricity")>>}
    /\ created = 1
    /\ clientSession = 1
    /\ jar \in {[s \in 1..MaxSessions |-> IF s = 1 THEN t ELSE NoToken] :
                    t \in {"tokA", NoToken}}
    /\ everOk = {1}
    /\ latest_login_time = 0
    /\ okLoginAt = 0
    /\ now = 0
    /\ lg = Idle
    /\ reqs = <<>>
    /\ resp = NoResponse
    /\ ret = NoRet
    /\ cache = [a \in Accessors |-> <<>>]
    /\ monotonic = 0
    /\ asked = 0
    /\ site \in {NoSite, 1}
    /\ prices_response = [interval |-> FALSE, measurements |-> <<>>]
    /\ measurements_response = [intervals |-> FALSE, electricity |-> <<>>]
    /\ margin = DefaultMargin
    /\ tax = DefaultTax

NextCache ==
    \/ \E key \in Keys : GetDailyMeasurementsBetweenDates(key)
    \/ \E key \in Keys : GetMonthlyMeasurementsByYear(key)
    \/ \E key \in Keys : GetHourlyMeasurementsBetweenDates(key)
    \/ \E key \in Keys : GetHourlySpotPricesBetweenDates(key)
    \/ GetContractDataJson
    \/ TakeResult
    \/ Elapse

-----------------------------------------------------------------------------
(* Specifications *)

(* The calls of a caller on sessions and on a client's clock, arithmetic   *)
(* and contracts.                                                          *)
Next ==
    \/ NewHelenSession
    \/ \E s \in 1..MaxSessions : SessionLogin(s)
    \/ ClientLogin
    \/ _send_login_request
    \/ _proceed_to_main_page_from_login_response
    \/ LoginReturn
    \/ \E s \in 1..MaxSessions : GetAccessToken(s)
    \/ IsSessionValid
    \/ Tick
    \/ ClockSetBack
    \/ CalculateTotalCosts
    \/ CalculateImpactOfUsage
    \/ \E m \in Margins : SetMargin(m)
    \/ \E id \in Sites \cup {NoSite} : GetContractByDeliverySiteId(id)
    \/ \E id \in Sites \cup {NoSite} : GetContractBasePrice(id)
    \/ \E id \in Sites \cup {NoSite} : GetContractEnergyUnitPrice(id)
    \/ \E id \in Sites \cup {NoSite} : GetTransferFee(id)
    \/ \E id \in Sites \cup {NoSite} : GetTransferBasePrice(id)
    \/ TakeResult

Spec == Init /\ [][Next]_vars

(* A caller that drives HelenSession objects directly. *)
NextSession ==
    \/ NewHelenSession
    \/ \E s \in 1..MaxSessions : SessionLogin(s)
    \/ _send_login_request
    \/ _proceed_to_main_page_from_login_response
    \/ LoginReturn
    \/ \E s \in 1..MaxSessions : GetAccessToken(s)

SpecSession == Init /\ [][NextSession]_vars

(* A caller that drives a HelenApiClient. *)
NextClient ==
    \/ ClientLogin
    \/ _send_login_request
    \/ _proceed_to_main_page_from_login_response
    \/ LoginReturn
    \/ IsSessionValid
    \/ Tick
    \/ ClockSetBack

SpecClient == Init /\ [][NextClient]_vars

(* A caller that runs the calculations on what the accessors serve. *)
SpecCalc == InitCalc /\ [][NextCalc]_vars

(* A caller that resolves contracts from what /contract/list serves. *)
SpecContracts == InitContracts /\ [][NextContracts]_vars

(* A caller that fetches data through the memoized accessors. *)
SpecCache == InitCache /\ [][NextCache]_vars

(* A caller that reads the prices of a contract's products. *)
SpecProducts == InitProducts /\ [][NextProducts]_vars

-----------------------------------------------------------------------------
(* The login chain as the specification states it *)

LoginChain ==
    <<Req("GET", "TUPAS_LOGIN_URL", "none"),
      Req("POST", "tupas.form.action", "none"),
      Req("POST", "HELEN_LOGIN_HOST+authorization.form.action", "username,password"),
      Req("GET", "access_granted.form.action", "code,state"),
      Req("GET", "proceed_link_page.a.href", "none"),
      Req("GET", "auth_response.form.action", "code,state")>>

(* What the response to request k must hold for request k+1 to be built *)
Needs ==
    <<{"form", "action"},
      {"form", "action"},
      {"form", "action", "code", "state"},
      {"a", "href"},
      {"form", "action", "code", "state"}>>

IsPrefix(a, b) == Len(a) <= Len(b) /\ \A i \in 1..Len(a) : a[i] = b[i]

(* The response to the latest request cannot be used: the transport raised,*)
(* or the page lacks what the next request is built from.                  *)
LatestResponseFails ==
    /\ Len(reqs) >= 1
    /\ \/ resp.kind \in TransportErrors
       \/ /\ resp.kind = "page"
          /\ Len(reqs) <= Len(Needs)
          /\ ~(Needs[Len(reqs)] \subseteq resp.body)

C1_state ==
    /\ IsPrefix(reqs, LoginChain)
    /\ lg.pc \in {"return", "done"} => reqs = LoginChain
    /\ lg.pc = "raised" =>
          /\ LatestResponseFails
          /\ IF resp.kind \in TransportErrors
             THEN lg.err = resp.kind
             ELSE lg.err \in {"AttributeError", "KeyError"}

C1_step ==
    /\ (reqs' # reqs /\ reqs' # <<>>) =>
          /\ lg.pc # "raised"
          /\ reqs' = SubSeq(LoginChain, 1, Len(reqs) + 1)
          /\ Len(reqs) >= 1 =>
                (resp.kind = "page" /\ Needs[Len(reqs)] \subseteq resp.body)
    /\ (lg.pc = "raised" /\ lg' # lg) => (lg'.pc \in {"idle", "tupas_get"})
    /\ (InCall /\ LatestResponseFails /\ lg' # lg) => lg'.pc = "raised"

(* C1: a login call issues the six requests of the chain in their fixed    *)
(* order, each only after the extraction from the previous response        *)
(* succeeded; a failed request or extraction ends the call by raising the  *)
(* error it produced, with no later request and no retry.                  *)
C1_LoginChainOrder == []C1_state /\ [][C1_step]_vars

C1_Witness ==
    /\ lg.pc = "raised"
    /\ Len(reqs) = 4
    /\ resp.kind = "page"
    /\ "href" \notin resp.body
    /\ lg.err = "KeyError"

(* C2: get_access_token raises on every session on which no login call has *)
(* returned normally, also after a login call that aborted at any step; it *)
(* returns no token there.                                                 *)
C2_NoTokenBeforeLogin ==
    (ret.op = "get_access_token" /\ ret.arg \notin everOk)
        => ret.out.kind = "raise"

(* C3: when every response of the chain holds what the chain needs, login  *)
(* returns without raising, and get_access_token afterwards returns the    *)
(* access-token cookie that the response to the last request set.          *)
C3_TokenOfLastResponse ==
    /\ (lg.pc = "raised") => LatestResponseFails
    /\ (/\ ret.op = "get_access_token"
        /\ lg.pc = "done"
        /\ lg.sid = ret.arg
        /\ resp.cookie # NoToken)
            => ret.out = Val(resp.cookie)

C3_Witness ==
    /\ ret.op = "get_access_token"
    /\ lg.pc = "done"
    /\ lg.sid = ret.arg
    /\ reqs = LoginChain
    /\ resp.cookie = "tokB"
    /\ ret.out = Val("tokB")

C4_state ==
    ret.op = "is_session_valid" =>
        ret.out = Val(/\ okLoginAt # -1
                      /\ okLoginAt <= now
                      /\ now - okLoginAt <= Hour)

C4_step ==
    (lg'.pc = "raised" /\ lg.pc # "raised") =>
        UNCHANGED <<clientSession, latest_login_time>>

(* C4: is_session_valid is false before any successful login, otherwise    *)
(* true exactly when the latest successful login is at most one hour old   *)
(* and not in the future; a login that raises changes neither the stored   *)
(* session nor the latest-login time.                                      *)
C4_SessionValidity == []C4_state /\ [][C4_step]_vars

C4_Witness ==
    /\ ret.op = "is_session_valid"
    /\ ret.out = Val(TRUE)
    /\ lg.pc = "raised"
    /\ clientSession # 0
    /\ clientSession # lg.sid

-----------------------------------------------------------------------------
(* The aggregates as the specification states them *)

RECURSIVE FnSum(_)
FnSum(f) ==
    IF DOMAIN f = {} THEN 0
    ELSE LET x == CHOOSE x \in DOMAIN f : TRUE
         IN f[x] + FnSum([y \in DOMAIN f \ {x} |-> f[y]])

RatEq(a, b) ==
    /\ a.den # 0
    /\ b.den # 0
    /\ IF a.den = b.den THEN a.num = b.num ELSE a.num * b.den = b.num * a.den

(* the hourly prices and the hourly measurements the responses hold *)
HourlyPrices ==
    IF prices_response.interval THEN prices_response.measurements ELSE <<>>
HourlyMeasurements ==
    IF measurements_response.intervals /\ measurements_response.electricity # <<>>
    THEN measurements_response.electricity[1].measurements ELSE <<>>

IsValid(xs, i) == xs[i].status = "valid"
ValidIn(xs) == {i \in 1..Len(xs) : IsValid(xs, i)}
AlignedLen == min(Len(HourlyPrices), Len(HourlyMeasurements))
ValidPairs ==
    {i \in 1..AlignedLen : IsValid(HourlyPrices, i) /\ IsValid(HourlyMeasurements, i)}

(* A: the sum of |price * measurement| over the valid aligned pairs *)
WeightedSum(add) ==
    FnSum([i \in ValidPairs |->
              abs((HourlyPrices[i].value + add) * HourlyMeasurements[i].value)])
AlignedConsumption ==
    FnSum([i \in ValidPairs |-> abs(HourlyMeasurements[i].value)])
AllValidConsumption ==
    FnSum([i \in ValidIn(HourlyMeasurements) |-> abs(HourlyMeasurements[i].value)])
ValidPriceSum == FnSum([i \in ValidIn(HourlyPrices) |-> HourlyPrices[i].value])
ValidPriceMagnitudeSum ==
    FnSum([i \in ValidIn(HourlyPrices) |-> abs(HourlyPrices[i].value)])
ValidPriceCount == Cardinality(ValidIn(HourlyPrices))

IsTotalCosts == ret.op = "calculate_total_costs_by_spot_prices_between_dates"
IsImpact == ret.op = "calculate_impact_of_usage_between_dates"

(* C5: where both hourly series exist, the total cost is (1+tax)/100 times *)
(* the sum of |(price_i + margin) * measurement_i| over exactly the        *)
(* indices below the shorter length at which both readings are valid; the  *)
(* other indices add nothing and do not shift the pairing.                 *)
C5_TotalCostsOverValidPairs ==
    (IsTotalCosts /\ (measurements_response.intervals \/ ~prices_response.interval))
        => /\ ret.out.kind = "value"
           /\ RatEq(ret.out.val, Rat((100 + tax) * WeightedSum(margin), 1000000))

C5_Witness ==
    /\ IsTotalCosts
    /\ ret.out.kind = "value"
    /\ ret.out.val.num # 0
    /\ \E i, j \in 1..AlignedLen :
          /\ i < j
          /\ i \notin ValidPairs
          /\ IsValid(HourlyPrices, i) \/ IsValid(HourlyMeasurements, i)
          /\ j \in ValidPairs
    /\ Len(HourlyPrices) # Len(HourlyMeasurements)

(* C6 as the claim states it: E and B count only the measurements of the   *)
(* valid aligned pairs.  "The average of all valid hourly prices" is read  *)
(* either way, as the average of the prices or of their magnitudes.        *)
C6_AsClaimed ==
    (IsImpact /\ ValidPairs # {} /\ AlignedConsumption # 0)
        => /\ ret.out.kind = "value"
           /\ \E price_sum \in {ValidPriceSum, ValidPriceMagnitudeSum} :
                 RatEq(ret.out.val,
                       Rat(WeightedSum(0) * ValidPriceCount
                               - price_sum * AlignedConsumption,
                           ValidPriceCount * AlignedConsumption))

(* C6, amended: with a valid aligned pair, the impact is (A-B)/E where A is *)
(* the sum of |price_i * measurement_i| over the valid aligned pairs, E is *)
(* the sum of the magnitudes of ALL valid measurements of the series       *)
(* (paired with a valid price or not), and B is the average of the         *)
(* magnitudes of all valid prices times E; with E = 0 the division raises  *)
(* ZeroDivisionError.                                                      *)
C6_ImpactOverAllValidMeasurements ==
    (IsImpact /\ ValidPairs # {})
        => IF AllValidConsumption = 0
           THEN ret.out = Raise("ZeroDivisionError")
           ELSE /\ ret.out.kind = "value"
                /\ RatEq(ret.out.val,
                         Rat(WeightedSum(0) * ValidPriceCount
                                 - ValidPriceMagnitudeSum * AllValidConsumption,
                             ValidPriceCount * AllValidConsumption))

C6_Witness ==
    /\ IsImpact
    /\ ValidPairs # {}
    /\ AllValidConsumption # AlignedConsumption
    /\ AlignedConsumption # 0
    /\ Len(HourlyMeasurements) > Len(HourlyPrices)
    /\ ret.out.kind = "value"
    /\ ret.out.val.num # 0

(* C7: the impact is exactly 0.0, with nothing raised, when the price      *)
(* response has no interval, the measurement response has no intervals or  *)
(* an empty electricity list, a series is empty, or no index has both      *)
(* readings valid.                                                         *)
C7_ImpactZeroWithoutPairs ==
    (/\ IsImpact
     /\ \/ ~prices_response.interval
        \/ ~measurements_response.intervals
        \/ measurements_response.electricity = <<>>
        \/ Len(HourlyPrices) = 0
        \/ Len(HourlyMeasurements) = 0
        \/ ValidPairs = {})
        => ret.out = Val(Zero)

C7_Witness ==
    /\ IsImpact
    /\ AlignedLen >= 2
    /\ ValidPairs = {}
    /\ \E i \in 1..AlignedLen : IsValid(HourlyPrices, i) /\ HourlyPrices[i].value # 0
    /\ \E i \in 1..AlignedLen :
          IsValid(HourlyMeasurements, i) /\ HourlyMeasurements[i].value # 0
    /\ ret.out = Val(Zero)

-----------------------------------------------------------------------------
(* Contract resolution as the specification states it *)

(* the positions of the active contracts: not ended, not production *)
ActiveAt ==
    {i \in 1..Len(contracts) :
        /\ contracts[i].end_date = NoDate \/ contracts[i].end_date >= now
        /\ contracts[i].domain # "electricity-production"}
SiteAt(id) == {i \in 1..Len(contracts) : contracts[i].delivery_site.id = id}
Least(S) == CHOOSE i \in S : \A j \in S : i <= j

IsResolution == ret.op = "_get_contract_by_delivery_site_id"
IsPriceAccessor ==
    ret.op \in {"get_contract_base_price", "get_contract_energy_unit_price",
                "get_transfer_fee", "get_transfer_base_price"}

(* C8: with no site id, resolution returns an active contract (end_date    *)
(* null or not before now, domain not electricity-production) whose        *)
(* start_date is the latest among the active ones, and None when no        *)
(* contract is active.                                                     *)
C8_LatestActiveContract ==
    (IsResolution /\ ret.arg = NoSite)
        => IF ActiveAt = {} THEN ret.out = Val(NoContract)
           ELSE /\ ret.out.kind = "value"
                /\ \E i \in ActiveAt :
                      /\ ret.out.val = contracts[i]
                      /\ \A j \in ActiveAt :
                            contracts[j].start_date <= contracts[i].start_date

C8_Witness ==
    /\ IsResolution
    /\ ret.arg = NoSite
    /\ ret.out.kind = "value"
    /\ Len(contracts) = 2
    /\ ret.out.val = contracts[2]
    /\ contracts[2].start_date > contracts[1].start_date
    /\ ActiveAt = {1, 2}

(* C9: with a site id that no active contract has, resolution returns the  *)
(* first contract of the whole list that has it.                           *)
C9_FallbackToAllContracts ==
    (/\ IsResolution
     /\ ret.arg # NoSite
     /\ SiteAt(ret.arg) \cap ActiveAt = {}
     /\ SiteAt(ret.arg) # {})
        => ret.out = Val(contracts[Least(SiteAt(ret.arg))])

(* C10: the four price accessors raise InvalidApiResponseException, and    *)
(* nothing else, when resolution yields no contract: no site id and no     *)
(* active contract, or a site id that no contract has.                     *)
C10_NoContractRaisesInvalidApiResponse ==
    (/\ IsPriceAccessor
     /\ \/ ret.arg = NoSite /\ ActiveAt = {}
        \/ ret.arg # NoSite /\ SiteAt(ret.arg) = {})
        => ret.out = Raise("InvalidApiResponseException")

-----------------------------------------------------------------------------
(* The accessors as the specification states them *)

Resolved == _get_contract_by_delivery_site_id(contracts, ret.arg)

ProductTypeOf(op) ==
    IF op \in {"get_contract_base_price", "get_contract_energy_unit_price"}
    THEN "energy" ELSE "transfer"

Matches(op, component) ==
    CASE op = "get_contract_base_price" -> component.is_base_price
      [] op = "get_contract_energy_unit_price" -> component.name = "Energia"
      [] op = "get_transfer_fee" -> component.name = "Siirtomaksu"
      [] op = "get_transfer_base_price" -> component.is_base_price

ProductsAt(products, op) ==
    {i \in 1..Len(products) : products[i].product_type = ProductTypeOf(op)}
ComponentsAt(components, op) ==
    {j \in 1..Len(components) : Matches(op, components[j])}

ExpectedPrice(products, op) ==
    IF ProductsAt(products, op) = {} THEN 0
    ELSE LET components == products[Least(ProductsAt(products, op))].components
         IN IF ComponentsAt(components, op) = {} THEN 0
            ELSE components[Least(ComponentsAt(components, op))].price

(* C11: when a contract is resolved, an accessor returns 0.0, raising       *)
(* nothing, if the contract has no product of the accessor's type or the   *)
(* first such product has no matching component; otherwise it returns the  *)
(* price of the first matching component of the first product of the type. *)
C11_PriceOfFirstMatch ==
    (IsPriceAccessor /\ Resolved.kind = "value" /\ Resolved.val # NoContract)
        => ret.out = Val(ExpectedPrice(Resolved.val.products, ret.op))

C11_Witness ==
    /\ ret.op = "get_transfer_fee"
    /\ ret.out = Val(0)
    /\ Len(contracts[1].products) = 2
    /\ contracts[1].products[1].product_type = "transfer"
    /\ contracts[1].products[1].components # <<>>
    /\ contracts[1].products[2].product_type = "transfer"
    /\ ComponentsAt(contracts[1].products[2].components, ret.op) # {}

-----------------------------------------------------------------------------
(* The memoized accessors as the specification states them *)

IsDataAccessor == ret.op \in Accessors

(* the capacities the specification gives *)
Capacity(a) ==
    IF a \in {Daily, Hourly, SpotPrices} THEN 4 ELSE 2

(* the entries an accessor holds for an argument tuple (one at most) *)
StoredFor(a, key) == {i \in 1..Len(cache[a]) : cache[a][i].key = key}

C12_state == \A a \in Accessors : Len(cache[a]) <= Capacity(a)

(* a call of an accessor whose argument tuple has a stored result: younger *)
(* than an hour, the call returns it and sends nothing; older than an hour,*)
(* the call sends a request and what it returns is not the stored result   *)
C12_step ==
    (ret = NoRet /\ ret' # NoRet /\ ret'.op \in Accessors) =>
        \A i \in StoredFor(ret'.op, ret'.arg) :
            LET stored == cache[ret'.op][i].value
            IN /\ monotonic - stored.at < Hour =>
                     (ret'.out = Val(stored) /\ ret'.sent = <<>>)
               /\ monotonic - stored.at > Hour =>
                     /\ ret'.sent # <<>>
                     /\ ret'.out.kind = "value" => ret'.out.val.at = monotonic

C13_AtMostOneRoundTrip == IsDataAccessor => Len(ret.sent) <= 1

(* the requests a call of the accessor may send, in their order *)
OwnEndpoints(a) ==
    CASE a = ContractData -> {CONTRACT_ENDPOINT}
      [] a = SpotPrices -> {SPOT_PRICES_ENDPOINT}
      [] OTHER -> {MEASUREMENTS_ENDPOINT, TRANSFER_ENDPOINT}

ResolvesContract(a, key) ==
    \/ a \in {Daily, Monthly, Hourly}
    \/ a = SpotPrices /\ key.delivery_site_id = NoSite

(* C13, amended: a call of a data accessor sends at most one request to    *)
(* its own endpoint and, before it, at most one request to /contract/list, *)
(* the latter only when the call resolves a contract (the three            *)
(* measurement accessors always, the spot prices with no delivery site id);*)
(* it sends no request twice, and after a request has failed in the        *)
(* transport it sends nothing more and the caller gets that error.         *)
C13_NoRetry ==
    IsDataAccessor =>
        /\ \/ ret.sent = <<>>
           \/ \E e \in OwnEndpoints(ret.op) : ret.sent = <<e>>
           \/ /\ ResolvesContract(ret.op, ret.arg)
              /\ \/ ret.sent = <<CONTRACT_ENDPOINT>>
                 \/ \E e \in OwnEndpoints(ret.op) :
                        ret.sent = <<CONTRACT_ENDPOINT, e>>
        /\ (ret.out.kind = "raise" /\ ret.out.val \in TransportErrors)
               => ret.sent # <<>>
        /\ (ret.out.kind = "value" /\ ret.sent # <<>>)
               => ret.sent[Len(ret.sent)] \in OwnEndpoints(ret.op)

C13_Witness ==
    /\ ret.op = Daily
    /\ ret.sent = <<CONTRACT_ENDPOINT, MEASUREMENTS_ENDPOINT>>
    /\ ret.out = Raise("ReadTimeout")

-----------------------------------------------------------------------------
(* Resolution by delivery site id, and the division of the impact *)

(* C14: with a delivery site id that an active contract has, resolution    *)
(* returns an active contract of that site, one whose start_date is the    *)
(* latest among the active contracts of the site, and never an inactive    *)
(* one, whatever else the list holds.                                      *)
C14_ActiveContractOfSite ==
    (IsResolution /\ ret.arg # NoSite /\ SiteAt(ret.arg) \cap ActiveAt # {})
        => /\ ret.out.kind = "value"
           /\ \E i \in SiteAt(ret.arg) \cap ActiveAt :
                 /\ ret.out.val = contracts[i]
                 /\ \A j \in SiteAt(ret.arg) \cap ActiveAt :
                       contracts[j].start_date <= contracts[i].start_date

(* C15: the impact calculation never divides by zero, also when every      *)
(* valid measurement is 0.                                                 *)
C15_NoDivisionByZero ==
    IsImpact => ret.out # Raise("ZeroDivisionError")

=============================================================================
